---- MODULE Spec2Model ----
(***************************************************************************)
(* A model of the w-ots crate: the WOTS+ chain state engine and message    *)
(* encoder of src/src/state.rs and the Merkle reduction of src/src/xmss.rs.*)
(*                                                                         *)
(* Blocks.  The digest is a type parameter of the crate (A::Digest); the   *)
(* model takes the ideal one: a block is the sequence <<base, r1, .., rk>> *)
(* standing for H(..H(H(base ^ r1) ^ r2).. ^ rk), so two blocks are equal  *)
(* exactly when they were built from the same base by the same             *)
(* randomization values in the same order.                                 *)
(*                                                                         *)
(* Indices.  Rust slices are 0-based; a range is kept as the record        *)
(* [start, end] of its 0-based half-open bounds and only the access        *)
(* rand[j + 1] shifts to TLA+'s 1-based sequences.                         *)
(***************************************************************************)
EXTENDS Integers, Sequences, FiniteSets, TLC

VARIABLES
    W,        \* A::WinternitzMinusOne::USIZE, also the length of randomization
    M,        \* A::MessageSize::USIZE
    inRand,   \* the randomization handed to State::new
    inData,   \* the data handed to State::new
    sk,       \* the result of State::new
    pk,       \* &sk * Message::infinity()
    sigD,     \* the digest encoded for sig
    sigMsg,   \* Message::message(sigD)
    sig,      \* &sk * sigMsg
    nxtOp,    \* which encoding advanced sig: "infinity", "message", "inverse"
    nxtD,     \* the digest encoded for nxt
    nxtMsg,   \* the encoding that advanced sig
    nxt,      \* &sig * nxtMsg
    kind,     \* which XmssOperation collapse runs with
    leaves,   \* the XmssTree handed to collapse
    xpc,      \* collapse's position
    height,   \* collapse's local `height`
    index,    \* the round the outer fold is at
    xprev,    \* the vector the last round consumed
    xdata,    \* the vector the outer fold carries
    calls,    \* the height argument of every operation call so far, in order
    root,     \* the value collapse returned
    leaf,     \* position in leaves of the leaf whose path is recorded
    pos,      \* that leaf's running value's position in xdata
    path,     \* the (sibling, side) pairs recorded so far
    replay    \* XmssPath(path).advance(leaves[leaf], f)

wvars == <<W, M, inRand, inData, sk, pk, sigD, sigMsg, sig, nxtOp, nxtD, nxtMsg, nxt>>
xvars == <<kind, leaves, xpc, height, index, xprev, xdata, calls, root, leaf, pos, path, replay>>
vars == <<W, M, inRand, inData, sk, pk, sigD, sigMsg, sig, nxtOp, nxtD, nxtMsg, nxt,
          kind, leaves, xpc, height, index, xprev, xdata, calls, root, leaf, pos, path, replay>>

(***************************************************************************)
(* Bounds of the model.                                                    *)
(***************************************************************************)
\* MessageSize ranges over 1..MaxM bytes.
MaxM == 2
\* collapse is run on 0..MaxN leaves.
MaxN == 9

(***************************************************************************)
(* Constants of the program.                                               *)
(***************************************************************************)
\* match A::WinternitzMinusOne::USIZE { 0x0f => ..
W15 == 15
\* .. 0xff => ..
W255 == 255
\* mem::size_of::<u64>(), the length of the checksum buffer
U64Bytes == 8
\* mem::size_of::<usize>() * 8
UsizeBits == 64

\* The parameter sets the model instantiates the crate with: the two the encoder
\* implements and two it does not (w + 1 a power of two, so that the float
\* logarithm of lengths() is exact).
WChoices == {3, 7, W15, W255}
\* The byte values digests are drawn from: zero, a low nibble, a high nibble, all ones.
ByteChoices == {0, 1, 16, 255}
Digests(m) == [1..m -> ByteChoices]

Min(a, b) == IF a <= b THEN a ELSE b

RECURSIVE Pow(_, _)
Pow(b, e) == IF e = 0 THEN 1 ELSE b * Pow(b, e - 1)

(***************************************************************************)
(* State::lengths.  The code computes in f64:                              *)
(*   l1 = ceil(m * 8 / log2(w + 1)),  l2 = 1 + floor(log2(l1 * w) / log2 w)*)
(* Log2 is the float log2 on the powers of two (exact there); FloorLog is  *)
(* floor(log2(x) / log2(b)), exact away from x a power of b above b, which *)
(* no parameter set of the model produces.                                 *)
(***************************************************************************)
RECURSIVE Log2(_)
Log2(x) == IF x <= 1 THEN 0 ELSE 1 + Log2(x \div 2)

RECURSIVE FloorLog(_, _)
FloorLog(b, x) == IF x < b THEN 0 ELSE 1 + FloorLog(b, x \div b)

CeilDiv(a, b) == (a + b - 1) \div b

lengths(w, m) ==
    LET l1 == CeilDiv(m * 8, Log2(w + 1))
        l2 == 1 + FloorLog(w, l1 * w)
    IN  <<l1, l2>>

L(w, m) == lengths(w, m)[1] + lengths(w, m)[2]

(***************************************************************************)
(* State                                                                   *)
(***************************************************************************)
NoState == [tag |-> "none", randomization |-> <<>>, data |-> <<>>]
Panicked == [tag |-> "panic", randomization |-> <<>>, data |-> <<>>]
OkState(r, d) == [tag |-> "ok", randomization |-> r, data |-> d]

State_new_unchecked(w, m, randomization, data) ==
    OkState(randomization, data)

\* State::new: assert_eq!(l1 + l2, data.len()), then the struct literal.
State_new(w, m, randomization, data) ==
    LET l == lengths(w, m)
    IN  IF l[1] + l[2] # Len(data)
        THEN Panicked
        ELSE OkState(randomization, data)

\* #[derive(Eq, PartialEq)] on State: field-wise equality.
StateEq(a, b) == a.randomization = b.randomization /\ a.data = b.data

(***************************************************************************)
(* Message                                                                 *)
(***************************************************************************)
Range(s, e) == [start |-> s, end |-> e]
MsgOk(r) == [tag |-> "ok", ranges |-> r]
MsgPanic(t) == [tag |-> t, ranges |-> <<>>]
NoMsg == MsgPanic("none")

empty == <<>>

infinity(w, m) ==
    LET l == lengths(w, m)
    IN  MsgOk([i \in 1..(l[1] + l[2]) |-> Range(0, w + 1)])

inverse(w, msg) ==
    MsgOk([i \in 1..Len(msg.ranges) |-> Range(msg.ranges[i].end, w + 1)])

add(s, v) == Append(s, Range(0, v))

\* buffer.iter().fold(empty(), |g, &x| g.add(x / 0x10).add(x & 0xf))
RECURSIVE SplitNibbles(_, _, _)
SplitNibbles(buffer, i, g) ==
    IF i > Len(buffer) THEN g
    ELSE SplitNibbles(buffer, i + 1, add(add(g, buffer[i] \div 16), buffer[i] % 16))

\* buffer.iter().fold(empty(), |g, &x| g.add(x))
RECURSIVE SplitBytes(_, _, _)
SplitBytes(buffer, i, g) ==
    IF i > Len(buffer) THEN g
    ELSE SplitBytes(buffer, i + 1, add(g, buffer[i]))

add_many_first(w, self, buffer, count) ==
    IF w = W15 \/ w = W255
    THEN LET ranges == IF w = W15 THEN SplitNibbles(buffer, 1, empty)
                                  ELSE SplitBytes(buffer, 1, empty)
         IN  IF ~(Len(ranges) >= count)
             THEN MsgPanic("assert")
             ELSE MsgOk(self \o SubSeq(ranges, 1, count))
    ELSE MsgPanic("unimplemented")

\* add_many on the ranges self; a Message, or the panic that ended the call.
add_many(w, self, buffer, count) ==
    IF w = W15 \/ w = W255
    THEN LET ranges == IF w = W15 THEN SplitNibbles(buffer, 1, empty)
                                  ELSE SplitBytes(buffer, 1, empty)
         IN  IF ~(Len(ranges) >= count)
             THEN MsgPanic("assert")
             ELSE LET base == Len(ranges) - count
                  IN  MsgOk(self \o SubSeq(ranges, base + 1, Len(ranges)))
    ELSE MsgPanic("unimplemented")

\* self.ranges[0..l1].iter().fold(0, |sum, r| sum + ((W - r.end) as u64))
RECURSIVE SumRemaining(_, _, _, _)
SumRemaining(w, ranges, i, sum) ==
    IF i = 0 THEN sum
    ELSE SumRemaining(w, ranges, i - 1, sum + (w - ranges[i].end))

RECURSIVE SumDigits(_, _, _, _)
SumDigits(w, ranges, i, sum) ==
    IF i = 0 THEN sum
    ELSE SumDigits(w, ranges, i - 1, sum + ranges[i].end)

\* BigEndian::write_u64(&mut buffer, sum).  Every sum of the model is below 2^31
\* (at most l1 * w), so the four high bytes of the u64 are zero.
write_u64(sum) ==
    [i \in 1..U64Bytes |->
        IF i <= U64Bytes - 4 THEN 0 ELSE (sum \div Pow(256, U64Bytes - i)) % 256]

checksum_of_digits(w, m, self) ==
    LET l == lengths(w, m)
    IN  IF ~((l[2] * m) \div l[1] <= U64Bytes) THEN MsgPanic("assert")
        ELSE IF Len(self) < l[1] THEN MsgPanic("index")
        ELSE add_many(w, self, write_u64(SumDigits(w, self, l[1], 0)), l[2])

checksum(w, m, self) ==
    LET l == lengths(w, m)
    IN  IF ~((l[2] * m) \div l[1] <= U64Bytes) THEN MsgPanic("assert")
        ELSE IF Len(self) < l[1] THEN MsgPanic("index")
        ELSE add_many(w, self, write_u64(SumRemaining(w, self, l[1], 0)), l[2])

\* Message::empty().add_many(message.as_ref(), l1).checksum()
message(w, m, digest) ==
    LET l == lengths(w, m)
        first == add_many(w, empty, digest, l[1])
    IN  IF first.tag # "ok" THEN first
        ELSE checksum(w, m, first.ranges)

(***************************************************************************)
(* The chain-advance operator, impl Mul<Message<A>> for &State<A>.         *)
(***************************************************************************)
\* GenericArray::generate(|i| a[i] ^ b[i]) hashed by A::Digest: one chain step.
HashXor(b, a) == Append(b, a)

\* self.randomization[range].iter().fold(block.clone(), ..): the steps j..e-1 in
\* increasing order, step k folding in rand[k] (0-based).  The fold over j..e-1
\* is the fold over j..mid-1 followed by the fold over mid..e-1; it is evaluated
\* in these two halves, the first one computed (Len) before the second starts,
\* so that a chain of 255 steps nests to depth 8 and not 255.
RECURSIVE ChainFold(_, _, _, _)
ChainFold(rand, b, j, e) ==
    IF j >= e THEN b
    ELSE IF e = j + 1 THEN HashXor(b, rand[j + 1])
    ELSE LET mid == (j + e) \div 2
             half == ChainFold(rand, b, j, mid)
         IN  IF Len(half) >= 0 THEN ChainFold(rand, half, mid, e) ELSE half

\* Indexing a slice of length n by start..end panics unless start <= end <= n.
SliceOk(n, range) == range.start <= range.end /\ range.end <= n

mul_drop_last(self, rhs) ==
    LET n == Min(Len(self.data), Len(rhs.ranges))
    IN  IF \E i \in 1..n : ~SliceOk(Len(self.randomization), rhs.ranges[i])
        THEN Panicked
        ELSE OkState(self.randomization,
                     [i \in 1..(n - 1) |->
                        ChainFold(self.randomization, self.data[i],
                                  rhs.ranges[i].start, rhs.ranges[i].end)])

mul(self, rhs) ==
    LET n == Min(Len(self.data), Len(rhs.ranges))
    IN  IF \E i \in 1..n : ~SliceOk(Len(self.randomization), rhs.ranges[i])
        THEN Panicked
        ELSE OkState(self.randomization,
                     [i \in 1..n |->
                        ChainFold(self.randomization, self.data[i],
                                  rhs.ranges[i].start, rhs.ranges[i].end)])

(***************************************************************************)
(* The inputs State::new is called with.                                   *)
(***************************************************************************)
RandChoices(w) == { [j \in 1..w |-> 0], [j \in 1..w |-> j] }
DataLens(w, m) == {0, L(w, m) - 1, L(w, m), L(w, m) + 1}
DataChoices(n) == { [i \in 1..n |-> <<i>>] }

(***************************************************************************)
(* The WOTS+ machine: a State is constructed, advanced to the public key,  *)
(* advanced by a digest's encoding, and the result advanced once more.     *)
(***************************************************************************)
WInit ==
    /\ W \in WChoices
    /\ M \in 1..MaxM
    /\ inRand = <<>>
    /\ inData = <<>>
    /\ sk = NoState
    /\ pk = NoState
    /\ sigD = <<>>
    /\ sigMsg = NoMsg
    /\ sig = NoState
    /\ nxtOp = "none"
    /\ nxtD = <<>>
    /\ nxtMsg = NoMsg
    /\ nxt = NoState

XIdle ==
    /\ kind = "sum"
    /\ leaves = <<>>
    /\ xpc = "idle"
    /\ height = 0
    /\ index = 0
    /\ xprev = <<>>
    /\ xdata = <<>>
    /\ calls = <<>>
    /\ root = <<>>
    /\ leaf = 0
    /\ pos = 0
    /\ path = <<>>
    /\ replay = <<>>

\* State::new(randomization, data)
New ==
    /\ sk.tag = "none"
    /\ \E r \in RandChoices(W), n \in DataLens(W, M) : \E d \in DataChoices(n) :
        /\ inRand' = r
        /\ inData' = d
        /\ sk' = State_new(W, M, r, d)
    /\ UNCHANGED <<W, M, pk, sigD, sigMsg, sig, nxtOp, nxtD, nxtMsg, nxt>>
    /\ UNCHANGED xvars

\* &sk * Message::infinity()
AdvanceInfinity ==
    /\ sk.tag = "ok"
    /\ pk.tag = "none"
    /\ pk' = mul(sk, infinity(W, M))
    /\ UNCHANGED <<W, M, inRand, inData, sk, sigD, sigMsg, sig, nxtOp, nxtD, nxtMsg, nxt>>
    /\ UNCHANGED xvars

\* &sk * Message::message(d); a panic of message() ends the call before mul.
AdvanceMessage ==
    /\ sk.tag = "ok"
    /\ sig.tag = "none"
    /\ \E d \in Digests(M) :
        LET msg == message(W, M, d)
        IN  /\ sigD' = d
            /\ sigMsg' = msg
            /\ sig' = IF msg.tag = "ok" THEN mul(sk, msg) ELSE Panicked
    /\ UNCHANGED <<W, M, inRand, inData, sk, pk, nxtOp, nxtD, nxtMsg, nxt>>
    /\ UNCHANGED xvars

\* &sig * Message::message(d).inverse()
AdvanceInverse ==
    /\ sig.tag = "ok"
    /\ nxtOp = "none"
    /\ \E d \in Digests(M) :
        LET msg == message(W, M, d)
            inv == IF msg.tag = "ok" THEN inverse(W, msg) ELSE msg
        IN  /\ nxtOp' = "inverse"
            /\ nxtD' = d
            /\ nxtMsg' = inv
            /\ nxt' = IF inv.tag = "ok" THEN mul(sig, inv) ELSE Panicked
    /\ UNCHANGED <<W, M, inRand, inData, sk, pk, sigD, sigMsg, sig>>
    /\ UNCHANGED xvars

\* &sig * Message::message(d): a State advanced by a second encoding.
AdvanceAgain ==
    /\ sig.tag = "ok"
    /\ nxtOp = "none"
    /\ \E d \in Digests(M) :
        LET msg == message(W, M, d)
        IN  /\ nxtOp' = "message"
            /\ nxtD' = d
            /\ nxtMsg' = msg
            /\ nxt' = IF msg.tag = "ok" THEN mul(sig, msg) ELSE Panicked
    /\ UNCHANGED <<W, M, inRand, inData, sk, pk, sigD, sigMsg, sig>>
    /\ UNCHANGED xvars

\* &sig * Message::infinity()
AdvanceSigInfinity ==
    /\ sig.tag = "ok"
    /\ nxtOp = "none"
    /\ nxtOp' = "infinity"
    /\ nxtMsg' = infinity(W, M)
    /\ nxt' = mul(sig, infinity(W, M))
    /\ UNCHANGED <<W, M, inRand, inData, sk, pk, sigD, sigMsg, sig, nxtD>>
    /\ UNCHANGED xvars

WNext ==
    \/ New
    \/ AdvanceInfinity
    \/ AdvanceMessage
    \/ AdvanceInverse
    \/ AdvanceAgain
    \/ AdvanceSigInfinity

InitWots == WInit /\ XIdle

SpecWots == InitWots /\ [][WNext]_vars

(***************************************************************************)
(* XmssOperation: the combination collapse and advance are generic over.   *)
(* "sum" is the implementation of the crate's test (height ignored);       *)
(* "concat" is an associative, order-sensitive one that ignores the height;*)
(* "tagged" builds the term of the combination, height included, in prefix *)
(* form (the marker -1 - height, then both operands), so that two results  *)
(* are equal exactly when the same values were combined in the same shape  *)
(* at the same heights.                                                    *)
(***************************************************************************)
Kinds == {"sum", "concat", "tagged"}

operation(k, h, lhs, rhs) ==
    IF k = "sum" THEN lhs + rhs
    ELSE IF k = "concat" THEN lhs \o rhs
    ELSE <<(-1) - h>> \o lhs \o rhs

\* (0..n).collect() for "sum"; n distinct one-element values otherwise.
LeavesOf(k, n) ==
    IF k = "sum" THEN [i \in 1..n |-> i - 1] ELSE [i \in 1..n |-> <<i - 1>>]

\* usize::leading_zeros
RECURSIVE BitLen(_)
BitLen(x) == IF x = 0 THEN 0 ELSE 1 + BitLen(x \div 2)
leading_zeros(x) == UsizeBits - BitLen(x)

collapse_height_of_len(n) == UsizeBits - leading_zeros(n)

\* let height = mem::size_of::<usize>() * 8 - ((data.len() - 1).leading_zeros() as usize)
collapse_height(n) == UsizeBits - leading_zeros(n - 1)

RECURSIVE InnerFold_swapped(_, _, _, _, _, _, _)
InnerFold_swapped(k, idx, data, i, acc, new, log) ==
    IF i > Len(data) THEN <<acc, new, log>>
    ELSE IF Len(acc) = 0
         THEN InnerFold_swapped(k, idx, data, i + 1, <<data[i]>>, new, log)
         ELSE InnerFold_swapped(k, idx, data, i + 1, <<>>,
                                Append(new, operation(k, idx, data[i], acc[1])),
                                Append(log, idx))

\* The inner fold of collapse over data[i..]: the accumulator acc is <<>> for None
\* and <<left>> for Some(left); log gains the height of every operation call.
RECURSIVE InnerFold(_, _, _, _, _, _, _)
InnerFold(k, idx, data, i, acc, new, log) ==
    IF i > Len(data) THEN <<acc, new, log>>
    ELSE IF Len(acc) = 0
         THEN InnerFold(k, idx, data, i + 1, <<data[i]>>, new, log)
         ELSE InnerFold(k, idx, data, i + 1, <<>>,
                        Append(new, operation(k, idx, acc[1], data[i])),
                        Append(log, idx))

\* One step of the outer fold: the inner fold, then `match state`.
FoldRound(k, idx, data, log) ==
    LET r == InnerFold(k, idx, data, 1, <<>>, <<>>, log)
    IN  IF Len(r[1]) = 0 THEN <<r[2], r[3]>>
        ELSE <<Append(r[2], r[1][1]), r[3]>>

\* XmssPath::advance: the fold over the enumerated path, i counting from 0.
RECURSIVE advance(_, _, _, _)
advance(k, p, i, item) ==
    IF i >= Len(p) THEN item
    ELSE advance(k, p, i + 1,
                 IF p[i + 1].reverse
                 THEN operation(k, i, p[i + 1].other, item)
                 ELSE operation(k, i, item, p[i + 1].other))

(***************************************************************************)
(* The path of a leaf.  XmssTree::path is unimplemented!() in the source;  *)
(* the pairs are the ones its contract names: what the leaf's running      *)
(* value is combined with in each round of collapse, and on which side.    *)
(***************************************************************************)
\* The pairs round `data` adds for the value at position p (1-based): none when
\* it is the unpaired trailing element.
PathEntry(data, p) ==
    IF p % 2 = 1
    THEN IF p = Len(data) THEN <<>>
         ELSE <<[other |-> data[p + 1], reverse |-> FALSE]>>
    ELSE <<[other |-> data[p - 1], reverse |-> TRUE]>>

\* Where the value at position p is after the round.
NextPos(p) == (p + 1) \div 2

(***************************************************************************)
(* The XMSS machine: collapse on a tree, one round of its outer fold per   *)
(* step, then the replay of one leaf's path.                               *)
(***************************************************************************)
XInit ==
    /\ kind \in Kinds
    /\ \E n \in 0..MaxN :
        /\ leaves = LeavesOf(kind, n)
        /\ leaf \in (IF n = 0 THEN {0} ELSE 1..n)
    /\ xpc = "call"
    /\ height = 0
    /\ index = 0
    /\ xprev = <<>>
    /\ xdata = <<>>
    /\ calls = <<>>
    /\ root = <<>>
    /\ pos = leaf
    /\ path = <<>>
    /\ replay = <<>>

WIdle ==
    /\ W = W15
    /\ M = 1
    /\ inRand = <<>>
    /\ inData = <<>>
    /\ sk = NoState
    /\ pk = NoState
    /\ sigD = <<>>
    /\ sigMsg = NoMsg
    /\ sig = NoState
    /\ nxtOp = "idle"
    /\ nxtD = <<>>
    /\ nxtMsg = NoMsg
    /\ nxt = NoState

\* collapse up to the outer fold: assert!(!data.is_empty()) and `height`.
CollapseBegin ==
    /\ xpc = "call"
    /\ IF Len(leaves) = 0
       THEN /\ xpc' = "panic_empty"
            /\ UNCHANGED <<height, xdata>>
       ELSE /\ xpc' = "fold"
            /\ height' = collapse_height(Len(leaves))
            /\ xdata' = leaves
    /\ UNCHANGED <<kind, leaves, index, xprev, calls, root, leaf, pos, path, replay>>
    /\ UNCHANGED wvars

\* One iteration of (0..height).fold(data, ..).
CollapseRound ==
    /\ xpc = "fold"
    /\ index < height
    /\ LET r == FoldRound(kind, index, xdata, calls)
       IN  /\ xdata' = r[1]
           /\ calls' = r[2]
    /\ xprev' = xdata
    /\ index' = index + 1
    /\ path' = path \o PathEntry(xdata, pos)
    /\ pos' = NextPos(pos)
    /\ UNCHANGED <<kind, leaves, xpc, height, root, leaf, replay>>
    /\ UNCHANGED wvars

\* assert!(data.len() == 1); data.pop().unwrap()
CollapseEnd ==
    /\ xpc = "fold"
    /\ index = height
    /\ IF Len(xdata) = 1
       THEN /\ xpc' = "done"
            /\ root' = xdata[Len(xdata)]
       ELSE /\ xpc' = "panic_len"
            /\ UNCHANGED root
    /\ UNCHANGED <<kind, leaves, height, index, xprev, xdata, calls, leaf, pos, path, replay>>
    /\ UNCHANGED wvars

\* XmssPath(path).advance(leaves[leaf], f)
Advance ==
    /\ xpc = "done"
    /\ xpc' = "replayed"
    /\ replay' = advance(kind, path, 0, leaves[leaf])
    /\ UNCHANGED <<kind, leaves, height, index, xprev, xdata, calls, root, leaf, pos, path>>
    /\ UNCHANGED wvars

XNext ==
    \/ CollapseBegin
    \/ CollapseRound
    \/ CollapseEnd
    \/ Advance

InitXmss == XInit /\ WIdle

SpecXmss == InitXmss /\ [][XNext]_vars


(***************************************************************************)
(* Properties.                                                             *)
(***************************************************************************)
Supported == {W15, W255}

RECURSIVE SumTo(_, _)
SumTo(f, n) == IF n = 0 THEN 0 ELSE f[n] + SumTo(f, n - 1)

\* The digest read as one big-endian number, and its k-th of n digits base b.
DigestValue(d) == SumTo([i \in 1..Len(d) |-> d[i] * Pow(256, Len(d) - i)], Len(d))
DigitOf(v, b, n, k) == (v \div Pow(b, n - k)) % b

\* The least k with 2^k >= n.
CeilLog2(n) == CHOOSE k \in 0..n : Pow(2, k) >= n /\ (k = 0 \/ Pow(2, k - 1) < n)

RECURSIVE FoldLeft(_, _, _)
FoldLeft(k, s, n) == IF n = 1 THEN s[1] ELSE operation(k, 0, FoldLeft(k, s, n - 1), s[n])

\* C1: signing a digest and then completing the signature with the inverse of the
\* same digest's encoding yields the State that advancing the secret with
\* infinity() yields (same data, same randomization).
C1_RoundTrip ==
    (W \in Supported /\ nxtOp = "inverse" /\ nxtD = sigD /\ pk.tag # "none")
        => (nxt.tag = "ok" /\ pk.tag = "ok" /\ StateEq(nxt, pk))

\* C2: completing a signature with message(d).inverse() never fails, and every
\* range of infinity(), message(d) and message(d).inverse() lies within the
\* index positions of the randomization array.
C2_VerifyNeverPanics ==
    W \in Supported =>
        /\ nxtOp = "inverse" => nxt.tag = "ok"
        /\ \A enc \in {sigMsg, nxtMsg} : \A i \in 1..Len(enc.ranges) :
               SliceOk(Len(sk.randomization), enc.ranges[i])
        /\ pk.tag # "none" =>
               \A i \in 1..Len(infinity(W, M).ranges) :
                   SliceOk(Len(sk.randomization), infinity(W, M).ranges[i])

\* C3: collapse with sum on 0..n returns n(n-1)/2, and with an associative
\* combination that ignores the height it returns the left-to-right fold of the
\* leaves in their order.
C3_CollapseIsFold ==
    xpc \in {"done", "replayed"} =>
        /\ kind = "sum" => root = (Len(leaves) * (Len(leaves) - 1)) \div 2
        /\ kind \in {"sum", "concat"} => root = FoldLeft(kind, leaves, Len(leaves))

C3_Witness ==
    /\ xpc = "done"
    /\ kind = "concat"
    /\ Len(leaves) = 7
    /\ root = <<0, 1, 2, 3, 4, 5, 6>>

\* C4: replaying by advance the (sibling, side) pairs a leaf's running value met
\* during collapse yields the value collapse returned, for every combination.
C4_ReplayIsRoot ==
    xpc = "replayed" => replay = root

\* C5: for w = 15 and w = 255, message(digest) is L1 + L2 ranges [0, d) with
\* d <= w; the first L1 digits are the digest's base-(w+1) digits, most
\* significant first, and the last L2 digits are the base-(w+1) digits of the
\* sum over the first L1 chains of (w - d).
C5_EncodingExact ==
    (W \in Supported /\ sigMsg.tag # "none") =>
        LET l1 == lengths(W, M)[1]
            l2 == lengths(W, M)[2]
            r == sigMsg.ranges
        IN  /\ sigMsg.tag = "ok"
            /\ Len(r) = l1 + l2
            /\ \A i \in 1..Len(r) : r[i].start = 0 /\ r[i].end <= W
            /\ \A k \in 1..l1 : r[k].end = DigitOf(DigestValue(sigD), W + 1, l1, k)
            /\ SumTo([j \in 1..l2 |-> r[l1 + j].end * Pow(W + 1, l2 - j)], l2)
                  = SumTo([i \in 1..l1 |-> W - r[i].end], l1)

C5_Witness ==
    /\ W = W15
    /\ sigD = <<16, 1>>
    /\ sigMsg.tag = "ok"
    /\ sigMsg.ranges[5].end = 3
    /\ sigMsg.ranges[6].end = 10

\* C6: with a WinternitzMinusOne other than 15 and 255 no State is ever
\* constructed: State::new fails.
C6_UnsupportedFailsAtSetup ==
    W \notin Supported => sk.tag # "ok"

\* C7: State::new fails exactly when data.len() # L1 + L2; a failed call leaves
\* no State, a successful one holds the randomization and data it was given.
C7_NewChecksLength ==
    sk.tag # "none" =>
        /\ sk.tag = "panic" <=> Len(inData) # lengths(W, M)[1] + lengths(W, M)[2]
        /\ sk.tag = "panic" => sk = Panicked
        /\ sk.tag = "ok" => sk = OkState(inRand, inData)

C7_Witness ==
    /\ sk.tag = "panic"
    /\ Len(inData) = L(W, M) + 1

\* C8: collapse fails on no leaves and only then; on n >= 1 leaves it runs
\* ceil(log2 n) rounds, round i calling the combination with height i only, each
\* round halving the vector (rounding up) and carrying an odd trailing element
\* over unchanged, and it ends with one value.
C8_CollapseRounds ==
    /\ (Len(leaves) = 0 /\ xpc # "call") => xpc = "panic_empty"
    /\ Len(leaves) >= 1 => xpc \notin {"panic_empty", "panic_len"}
    /\ xpc \in {"fold", "done", "replayed"} =>
        /\ height = CeilLog2(Len(leaves))
        /\ index <= height
        /\ Len(xdata) = CeilDiv(Len(leaves), Pow(2, index))
        /\ \A i \in 1..Len(calls) : \A j \in 1..Len(calls) : i < j => calls[i] <= calls[j]
        /\ {calls[i] : i \in 1..Len(calls)} = 0..(index - 1)
        /\ (index > 0 /\ Len(xprev) % 2 = 1) => xdata[Len(xdata)] = xprev[Len(xprev)]
    /\ xpc \in {"done", "replayed"} => index = CeilLog2(Len(leaves)) /\ Len(xdata) = 1

C8_Witness ==
    /\ xpc = "done"
    /\ Len(leaves) = 5
    /\ index = 3
    /\ calls = <<0, 0, 1, 2>>

\* C9: every State an advance produces carries L1 + L2 chain values and the
\* randomization of the State it was derived from, and the constructed State is
\* still what State::new was given.
C9_ChainCount ==
    /\ sk.tag = "ok" => (Len(sk.data) = L(W, M) /\ sk = OkState(inRand, inData))
    /\ \A s \in {pk, sig, nxt} :
          s.tag = "ok" => (Len(s.data) = L(W, M) /\ s.randomization = sk.randomization)

C9_Witness ==
    /\ nxtOp = "message"
    /\ nxt.tag = "ok"
    /\ sig.tag = "ok"
    /\ nxtD # sigD

\* C10: of two distinct digests neither encoding dominates the other: some
\* chain's digit of the second is strictly smaller than the first's.
C10_NoDomination ==
    (sigMsg.tag = "ok" /\ nxtOp = "message" /\ nxtMsg.tag = "ok" /\ sigD # nxtD) =>
        \E i \in 1..Len(sigMsg.ranges) : nxtMsg.ranges[i].end < sigMsg.ranges[i].end

C10_Witness ==
    /\ sigMsg.tag = "ok"
    /\ nxtOp = "message"
    /\ nxtMsg.tag = "ok"
    /\ sigD # nxtD
    /\ \A i \in 1..lengths(W, M)[1] : nxtMsg.ranges[i].end >= sigMsg.ranges[i].end


====
